---------------------------- MODULE Spec2Model ----------------------------
(***************************************************************************)
(* Model of the Vedic astrology HTTP service: the input validator, the     *)
(* Atmakarak derivation and the POST /astrology-data pipeline around the   *)
(* external chart generator.                                               *)
(*                                                                         *)
(* Representation.                                                         *)
(*  - A JavaScript value is a record [t, v]: t is its kind ("undefined",   *)
(*    "null", "number", "NaN", "string", "object"), v its payload.         *)
(*  - A number is an integer count of tenths (28.6 is 286, 5.5 is 55,      *)
(*    360 is 3600), so one unit is the smallest step above or below a      *)
(*    boundary that the model distinguishes.                               *)
(*  - A string is a sequence of one-character strings, so that regular     *)
(*    expression tests, Number(), String.includes and join are computed    *)
(*    character by character.                                              *)
(***************************************************************************)
EXTENDS Integers, Sequences, FiniteSets, TLC

VARIABLES
    pc,                \* position of the request handler / of the function under test
    hostOffset,        \* host time zone of the process, minutes east of UTC
    args,              \* arguments of getVedicAstrologyData / validateAstrologyInput
    validationErrors,  \* the validator's result (part_000 line 160)
    birthChart,        \* the collaborator's chart
    derived,           \* the value computed from the chart
    body,              \* req.body of the request being handled
    pkg,               \* shape of the loaded vedic-astrology module
    thrown,            \* the error in flight
    response,          \* the HTTP response sent
    calls,             \* getBirthChart invocations made for the current request
    handled,           \* requests completed
    fault              \* where the current request's failure arose (history of the run)

vars ==
    <<pc, hostOffset, args, validationErrors, birthChart, derived, body, pkg,
      thrown, response, calls, handled, fault>>

---------------------------------------------------------------------------
(* Bounds of the model *)

\* how many tenths beyond each numeric range boundary the inputs go
Margin ==
    1

\* requests handled one after another by the server
MaxRequests ==
    2

\* how many of the seven planets may carry malformed degree data in one chart
MaxOdd ==
    1

---------------------------------------------------------------------------
(* JavaScript values *)

Undef ==
    [t |-> "undefined", v |-> 0]

Null ==
    [t |-> "null", v |-> 0]

NaN ==
    [t |-> "NaN", v |-> 0]

Num(n) ==
    [t |-> "number", v |-> n]

Str(s) ==
    [t |-> "string", v |-> s]

Obj(o) ==
    [t |-> "object", v |-> o]

\* typeof x === 'number' (NaN is a number)
TypeofNumber(x) ==
    x.t \in {"number", "NaN"}

\* typeof x === 'string'
TypeofString(x) ==
    x.t = "string"

\* typeof x === 'object' (null is an object)
TypeofObject(x) ==
    x.t \in {"object", "null"}

\* isNaN(x) for a value whose typeof is 'number'
IsNaN(x) ==
    x.t = "NaN"

\* !x : undefined, null, NaN, 0 and '' are falsy
Falsy(x) ==
    \/ x.t \in {"undefined", "null", "NaN"}
    \/ x.t = "number" /\ x.v = 0
    \/ x.t = "string" /\ x.v = <<>>

\* x == null : undefined or null
LooseNull(x) ==
    x.t \in {"undefined", "null"}

---------------------------------------------------------------------------
(* Strings *)

DigitChars ==
    <<"0", "1", "2", "3", "4", "5", "6", "7", "8", "9">>

\* \d
IsDigit(c) ==
    \E i \in 1..Len(DigitChars) : DigitChars[i] = c

DigitValue(c) ==
    (CHOOSE i \in 1..Len(DigitChars) : DigitChars[i] = c) - 1

\* Number(s) for a string of digits
RECURSIVE NumberOfDigits(_)
NumberOfDigits(s) ==
    IF s = <<>> THEN 0
    ELSE 10 * NumberOfDigits(SubSeq(s, 1, Len(s) - 1)) + DigitValue(s[Len(s)])

\* String.prototype.includes
Includes(s, pat) ==
    \E i \in 1..(Len(s) - Len(pat) + 1) : SubSeq(s, i, i + Len(pat) - 1) = pat

\* Array.prototype.join
RECURSIVE Join(_, _)
Join(list, sep) ==
    IF list = <<>> THEN <<>>
    ELSE IF Len(list) = 1 THEN list[1]
    ELSE list[1] \o sep \o Join(Tail(list), sep)

\* what a client writes: n as k decimal digits, zero padded
RECURSIVE Pad(_, _)
Pad(n, k) ==
    IF k = 0 THEN <<>>
    ELSE Pad(n \div 10, k - 1) \o <<DigitChars[(n % 10) + 1]>>

FormatDate(y, m, d, sep) ==
    Pad(y, 4) \o <<sep>> \o Pad(m, 2) \o <<sep>> \o Pad(d, 2)

FormatTime(h, m, s) ==
    Pad(h, 2) \o <<":">> \o Pad(m, 2) \o <<":">> \o Pad(s, 2)

---------------------------------------------------------------------------
(* String literals of the source *)

\* 'Date string is required'
ErrDateRequired ==
    <<"D","a","t","e"," ","s","t","r","i","n","g"," ","i","s"," ","r","e","q","u","i","r","e",
      "d">>

\* 'Date must be in YYYY-MM-DD format'
ErrDateFormat ==
    <<"D","a","t","e"," ","m","u","s","t"," ","b","e"," ","i","n"," ","Y","Y","Y","Y","-","M",
      "M","-","D","D"," ","f","o","r","m","a","t">>

\* 'Invalid date provided'
ErrDateInvalid ==
    <<"I","n","v","a","l","i","d"," ","d","a","t","e"," ","p","r","o","v","i","d","e","d">>

\* 'Date must be between 1900 and 2100'
ErrDateRange ==
    <<"D","a","t","e"," ","m","u","s","t"," ","b","e"," ","b","e","t","w","e","e","n"," ","1",
      "9","0","0"," ","a","n","d"," ","2","1","0","0">>

\* 'Time string is required'
ErrTimeRequired ==
    <<"T","i","m","e"," ","s","t","r","i","n","g"," ","i","s"," ","r","e","q","u","i","r","e",
      "d">>

\* 'Time must be in HH:MM:SS format'
ErrTimeFormat ==
    <<"T","i","m","e"," ","m","u","s","t"," ","b","e"," ","i","n"," ","H","H",":","M","M",":",
      "S","S"," ","f","o","r","m","a","t">>

\* 'Hours must be between 00 and 23'
ErrHours ==
    <<"H","o","u","r","s"," ","m","u","s","t"," ","b","e"," ","b","e","t","w","e","e","n"," ",
      "0","0"," ","a","n","d"," ","2","3">>

\* 'Minutes must be between 00 and 59'
ErrMinutes ==
    <<"M","i","n","u","t","e","s"," ","m","u","s","t"," ","b","e"," ","b","e","t","w","e","e",
      "n"," ","0","0"," ","a","n","d"," ","5","9">>

\* 'Seconds must be between 00 and 59'
ErrSeconds ==
    <<"S","e","c","o","n","d","s"," ","m","u","s","t"," ","b","e"," ","b","e","t","w","e","e",
      "n"," ","0","0"," ","a","n","d"," ","5","9">>

\* 'Latitude must be a valid number'
ErrLatNumber ==
    <<"L","a","t","i","t","u","d","e"," ","m","u","s","t"," ","b","e"," ","a"," ","v","a","l",
      "i","d"," ","n","u","m","b","e","r">>

\* 'Latitude must be between -90 and 90'
ErrLatRange ==
    <<"L","a","t","i","t","u","d","e"," ","m","u","s","t"," ","b","e"," ","b","e","t","w","e",
      "e","n"," ","-","9","0"," ","a","n","d"," ","9","0">>

\* 'Longitude must be a valid number'
ErrLngNumber ==
    <<"L","o","n","g","i","t","u","d","e"," ","m","u","s","t"," ","b","e"," ","a"," ","v","a",
      "l","i","d"," ","n","u","m","b","e","r">>

\* 'Longitude must be between -180 and 180'
ErrLngRange ==
    <<"L","o","n","g","i","t","u","d","e"," ","m","u","s","t"," ","b","e"," ","b","e","t","w",
      "e","e","n"," ","-","1","8","0"," ","a","n","d"," ","1","8","0">>

\* 'Timezone must be a valid number'
ErrTzNumber ==
    <<"T","i","m","e","z","o","n","e"," ","m","u","s","t"," ","b","e"," ","a"," ","v","a","l",
      "i","d"," ","n","u","m","b","e","r">>

\* 'Timezone must be between -12 and 14'
ErrTzRange ==
    <<"T","i","m","e","z","o","n","e"," ","m","u","s","t"," ","b","e"," ","b","e","t","w","e",
      "e","n"," ","-","1","2"," ","a","n","d"," ","1","4">>

\* 'dateOfBirth is required and must be a string'
SrvDateRequired ==
    <<"d","a","t","e","O","f","B","i","r","t","h"," ","i","s"," ","r","e","q","u","i","r","e",
      "d"," ","a","n","d"," ","m","u","s","t"," ","b","e"," ","a"," ","s","t","r","i","n","g">>

\* 'dateOfBirth must be in YYYY-MM-DD format'
SrvDateFormat ==
    <<"d","a","t","e","O","f","B","i","r","t","h"," ","m","u","s","t"," ","b","e"," ","i","n",
      " ","Y","Y","Y","Y","-","M","M","-","D","D"," ","f","o","r","m","a","t">>

\* 'dateOfBirth must be a valid date'
SrvDateInvalid ==
    <<"d","a","t","e","O","f","B","i","r","t","h"," ","m","u","s","t"," ","b","e"," ","a"," ",
      "v","a","l","i","d"," ","d","a","t","e">>

\* 'timeOfBirth is required and must be a string'
SrvTimeRequired ==
    <<"t","i","m","e","O","f","B","i","r","t","h"," ","i","s"," ","r","e","q","u","i","r","e",
      "d"," ","a","n","d"," ","m","u","s","t"," ","b","e"," ","a"," ","s","t","r","i","n","g">>

\* 'timeOfBirth must be in HH:MM:SS format'
SrvTimeFormat ==
    <<"t","i","m","e","O","f","B","i","r","t","h"," ","m","u","s","t"," ","b","e"," ","i","n",
      " ","H","H",":","M","M",":","S","S"," ","f","o","r","m","a","t">>

\* 'lat is required and must be a number'
SrvLatRequired ==
    <<"l","a","t"," ","i","s"," ","r","e","q","u","i","r","e","d"," ","a","n","d"," ","m","u",
      "s","t"," ","b","e"," ","a"," ","n","u","m","b","e","r">>

\* 'lat must be between -90 and 90'
SrvLatRange ==
    <<"l","a","t"," ","m","u","s","t"," ","b","e"," ","b","e","t","w","e","e","n"," ","-","9",
      "0"," ","a","n","d"," ","9","0">>

\* 'lng is required and must be a number'
SrvLngRequired ==
    <<"l","n","g"," ","i","s"," ","r","e","q","u","i","r","e","d"," ","a","n","d"," ","m","u",
      "s","t"," ","b","e"," ","a"," ","n","u","m","b","e","r">>

\* 'lng must be between -180 and 180'
SrvLngRange ==
    <<"l","n","g"," ","m","u","s","t"," ","b","e"," ","b","e","t","w","e","e","n"," ","-","1",
      "8","0"," ","a","n","d"," ","1","8","0">>

\* 'Input validation failed: '
MsgValidationPrefix ==
    <<"I","n","p","u","t"," ","v","a","l","i","d","a","t","i","o","n"," ","f","a","i","l","e",
      "d",":"," ">>

\* ', '
JoinSeparator ==
    <<","," ">>

\* 'Vedic astrology package not properly loaded or missing required methods'
MsgPackageNotLoaded ==
    <<"V","e","d","i","c"," ","a","s","t","r","o","l","o","g","y"," ","p","a","c","k","a","g",
      "e"," ","n","o","t"," ","p","r","o","p","e","r","l","y"," ","l","o","a","d","e","d"," ",
      "o","r"," ","m","i","s","s","i","n","g"," ","r","e","q","u","i","r","e","d"," ","m","e",
      "t","h","o","d","s">>

\* 'Vedic astrology package returned null/undefined birth chart'
MsgNullChart ==
    <<"V","e","d","i","c"," ","a","s","t","r","o","l","o","g","y"," ","p","a","c","k","a","g",
      "e"," ","r","e","t","u","r","n","e","d"," ","n","u","l","l","/","u","n","d","e","f","i",
      "n","e","d"," ","b","i","r","t","h"," ","c","h","a","r","t">>

\* 'Birth chart missing required meta data'
MsgMissingMeta ==
    <<"B","i","r","t","h"," ","c","h","a","r","t"," ","m","i","s","s","i","n","g"," ","r","e",
      "q","u","i","r","e","d"," ","m","e","t","a"," ","d","a","t","a">>

\* 'Invalid input parameters: '
MsgInvalidInputPrefix ==
    <<"I","n","v","a","l","i","d"," ","i","n","p","u","t"," ","p","a","r","a","m","e","t","e",
      "r","s",":"," ">>

\* 'Astrology calculation service is currently unavailable'
MsgServiceUnavailable ==
    <<"A","s","t","r","o","l","o","g","y"," ","c","a","l","c","u","l","a","t","i","o","n"," ",
      "s","e","r","v","i","c","e"," ","i","s"," ","c","u","r","r","e","n","t","l","y"," ","u",
      "n","a","v","a","i","l","a","b","l","e">>

\* 'Failed to generate valid birth chart data'
MsgMalformedChart ==
    <<"F","a","i","l","e","d"," ","t","o"," ","g","e","n","e","r","a","t","e"," ","v","a","l",
      "i","d"," ","b","i","r","t","h"," ","c","h","a","r","t"," ","d","a","t","a">>

\* 'Astrology calculation failed: '
MsgCalculationFailedPrefix ==
    <<"A","s","t","r","o","l","o","g","y"," ","c","a","l","c","u","l","a","t","i","o","n"," ",
      "f","a","i","l","e","d",":"," ">>

\* 'Unknown error occurred during astrology calculation'
MsgUnknownError ==
    <<"U","n","k","n","o","w","n"," ","e","r","r","o","r"," ","o","c","c","u","r","r","e","d",
      " ","d","u","r","i","n","g"," ","a","s","t","r","o","l","o","g","y"," ","c","a","l","c",
      "u","l","a","t","i","o","n">>

\* 'Input validation failed'
PatValidationFailed ==
    <<"I","n","p","u","t"," ","v","a","l","i","d","a","t","i","o","n"," ","f","a","i","l","e",
      "d">>

\* 'vedic-astrology'
PatVedicAstrology ==
    <<"v","e","d","i","c","-","a","s","t","r","o","l","o","g","y">>

\* 'package'
PatPackage ==
    <<"p","a","c","k","a","g","e">>

\* 'birth chart'
PatBirthChart ==
    <<"b","i","r","t","h"," ","c","h","a","r","t">>

\* 'meta'
PatMeta ==
    <<"m","e","t","a">>

\* 'Invalid date'
PatInvalidDate ==
    <<"I","n","v","a","l","i","d"," ","d","a","t","e">>

\* 'Invalid time'
PatInvalidTime ==
    <<"I","n","v","a","l","i","d"," ","t","i","m","e">>

\* 'coordinates'
PatCoordinates ==
    <<"c","o","o","r","d","i","n","a","t","e","s">>

\* 'latitude'
PatLatitude ==
    <<"l","a","t","i","t","u","d","e">>

\* 'longitude'
PatLongitude ==
    <<"l","o","n","g","i","t","u","d","e">>

\* 'Unknown'
SignUnknown ==
    <<"U","n","k","n","o","w","n">>

\* 'The astrology calculation service is currently unavailable. Please try again later.'
Msg503 ==
    <<"T","h","e"," ","a","s","t","r","o","l","o","g","y"," ","c","a","l","c","u","l","a","t",
      "i","o","n"," ","s","e","r","v","i","c","e"," ","i","s"," ","c","u","r","r","e","n","t",
      "l","y"," ","u","n","a","v","a","i","l","a","b","l","e","."," ","P","l","e","a","s","e",
      " ","t","r","y"," ","a","g","a","i","n"," ","l","a","t","e","r",".">>

\* 'Failed to calculate astrology data. Please try again later.'
Msg500 ==
    <<"F","a","i","l","e","d"," ","t","o"," ","c","a","l","c","u","l","a","t","e"," ","a","s",
      "t","r","o","l","o","g","y"," ","d","a","t","a","."," ","P","l","e","a","s","e"," ","t",
      "r","y"," ","a","g","a","i","n"," ","l","a","t","e","r",".">>

\* 'An unexpected error occurred. Please try again later.'
Msg500Unknown ==
    <<"A","n"," ","u","n","e","x","p","e","c","t","e","d"," ","e","r","r","o","r"," ","o","c",
      "c","u","r","r","e","d","."," ","P","l","e","a","s","e"," ","t","r","y"," ","a","g","a",
      "i","n"," ","l","a","t","e","r",".">>

\* texts that only occur in inputs

\* 'swisseph computation error'
CollabMsgGeneric ==
    <<"s","w","i","s","s","e","p","h"," ","c","o","m","p","u","t","a","t","i","o","n"," ","e",
      "r","r","o","r">>

\* 'Cannot find package \'swisseph\''
CollabMsgPackage ==
    <<"C","a","n","n","o","t"," ","f","i","n","d"," ","p","a","c","k","a","g","e"," ","'","s",
      "w","i","s","s","e","p","h","'">>

\* 'latitude out of range'
CollabMsgLatitude ==
    <<"l","a","t","i","t","u","d","e"," ","o","u","t"," ","o","f"," ","r","a","n","g","e">>

\* 'Cancer'
SignCancer ==
    <<"C","a","n","c","e","r">>

\* 'Leo'
SignLeo ==
    <<"L","e","o">>

\* '120'
TextDegree ==
    <<"1","2","0">>

\* 'n/a'
TextMeta ==
    <<"n","/","a">>

\* '14:30'
TextTime ==
    <<"1","4",":","3","0">>

---------------------------------------------------------------------------
(* Program constants, numbers in tenths *)

MinYear ==
    1900

MaxYear ==
    2100

MaxHours ==
    23

MaxMinutes ==
    59

MaxSeconds ==
    59

LatMin ==
    -900

LatMax ==
    900

LngMin ==
    -1800

LngMax ==
    1800

TzMin ==
    -120

TzMax ==
    140

\* timezone: number = 5.5
DefaultTimezone ==
    55

\* degree <= 360
MaxDegree ==
    3600

---------------------------------------------------------------------------
(* Date, as the host's JavaScript engine (Node, V8) implements it *)

InvalidDate ==
    [nan |-> TRUE, y |-> 0, m |-> 0, d |-> 0]

IsLeap(y) ==
    (y % 4 = 0 /\ y % 100 # 0) \/ y % 400 = 0

DaysInMonth(y, m) ==
    IF m = 2 THEN (IF IsLeap(y) THEN 29 ELSE 28)
    ELSE IF m \in {4, 6, 9, 11} THEN 30
    ELSE 31

\* /^\d{4}-\d{2}-\d{2}$/
dateRegex(s) ==
    /\ Len(s) = 10
    /\ \A i \in {1, 2, 3, 4, 6, 7, 9, 10} : IsDigit(s[i])
    /\ s[5] = "-"
    /\ s[8] = "-"

\* /^\d{2}:\d{2}:\d{2}$/
timeRegex(s) ==
    /\ Len(s) = 8
    /\ \A i \in {1, 2, 4, 5, 7, 8} : IsDigit(s[i])
    /\ s[3] = ":"
    /\ s[6] = ":"

\* new Date('YYYY-MM-DD'): a date-only ISO string is read as midnight UTC.
\* V8 accepts month 1..12 and day 1..31 and lets a day past the end of the
\* month roll over into the next month (2023-02-30 is March 2); anything
\* else is the Invalid Date.
NewDate(s) ==
    LET y == NumberOfDigits(SubSeq(s, 1, 4))
        m == NumberOfDigits(SubSeq(s, 6, 7))
        d == NumberOfDigits(SubSeq(s, 9, 10))
    IN  IF m < 1 \/ m > 12 \/ d < 1 \/ d > 31 THEN InvalidDate
        ELSE IF d > DaysInMonth(y, m)
             THEN [nan |-> FALSE, y |-> y, m |-> m + 1, d |-> d - DaysInMonth(y, m)]
             ELSE [nan |-> FALSE, y |-> y, m |-> m, d |-> d]

\* date.getFullYear(): the year of the instant in the host's LOCAL time.
\* Midnight UTC is still the same calendar day east of Greenwich and the
\* previous calendar day west of it. NaN for the Invalid Date.
getFullYear(date, host) ==
    IF date.nan THEN NaN
    ELSE IF host < 0 /\ date.m = 1 /\ date.d = 1 THEN Num(date.y - 1)
    ELSE Num(date.y)

---------------------------------------------------------------------------
(* validateAstrologyInput, part_000 lines 9-75 *)

\* errors.push(e)
Push(errors, e) ==
    Append(errors, e)

\* lines 12-31
ValidateDateString(errors, dateString, host) ==
    IF Falsy(dateString) \/ ~TypeofString(dateString)
    THEN Push(errors, ErrDateRequired)
    ELSE IF ~dateRegex(dateString.v)
    THEN Push(errors, ErrDateFormat)
    ELSE LET date == NewDate(dateString.v)
             e1   == IF date.nan THEN Push(errors, ErrDateInvalid) ELSE errors
             year == getFullYear(date, host)
         IN  IF ~IsNaN(year) /\ (year.v < MinYear \/ year.v > MaxYear)
             THEN Push(e1, ErrDateRange)
             ELSE e1

\* lines 33-52
ValidateTimeString(errors, timeString) ==
    IF Falsy(timeString) \/ ~TypeofString(timeString)
    THEN Push(errors, ErrTimeRequired)
    ELSE IF ~timeRegex(timeString.v)
    THEN Push(errors, ErrTimeFormat)
    ELSE LET hours   == NumberOfDigits(SubSeq(timeString.v, 1, 2))
             minutes == NumberOfDigits(SubSeq(timeString.v, 4, 5))
             seconds == NumberOfDigits(SubSeq(timeString.v, 7, 8))
             e1 == IF hours < 0 \/ hours > MaxHours
                   THEN Push(errors, ErrHours) ELSE errors
             e2 == IF minutes < 0 \/ minutes > MaxMinutes
                   THEN Push(e1, ErrMinutes) ELSE e1
         IN  IF seconds < 0 \/ seconds > MaxSeconds
             THEN Push(e2, ErrSeconds) ELSE e2

\* lines 54-59
ValidateLat(errors, lat) ==
    IF ~TypeofNumber(lat) \/ IsNaN(lat) THEN Push(errors, ErrLatNumber)
    ELSE IF lat.v < LatMin \/ lat.v > LatMax THEN Push(errors, ErrLatRange)
    ELSE errors

\* lines 61-65
ValidateLng(errors, lng) ==
    IF ~TypeofNumber(lng) \/ IsNaN(lng) THEN Push(errors, ErrLngNumber)
    ELSE IF lng.v < LngMin \/ lng.v > LngMax THEN Push(errors, ErrLngRange)
    ELSE errors

\* lines 67-72
ValidateTimezone(errors, timezone) ==
    IF ~TypeofNumber(timezone) \/ IsNaN(timezone) THEN Push(errors, ErrTzNumber)
    ELSE IF timezone.v < TzMin \/ timezone.v > TzMax THEN Push(errors, ErrTzRange)
    ELSE errors

validateAstrologyInput(dateString, timeString, lat, lng, timezone, host) ==
    ValidateTimezone(
        ValidateLng(
            ValidateLat(
                ValidateTimeString(
                    ValidateDateString(<<>>, dateString, host),
                    timeString),
                lat),
            lng),
        timezone)

\* the default parameter value timezone = 5.5: used when the argument is undefined
TimezoneParameter(timezone) ==
    IF timezone.t = "undefined" THEN Num(DefaultTimezone) ELSE timezone

---------------------------------------------------------------------------
(* Number to string and back, as String() and parseFloat() do it *)

\* the decimal digits of n >= 0
RECURSIVE Digits(_)
Digits(n) ==
    IF n < 10 THEN <<DigitChars[n + 1]>>
    ELSE Digits(n \div 10) \o <<DigitChars[(n % 10) + 1]>>

Abs(n) ==
    IF n < 0 THEN -n ELSE n

\* String(x): 3601 tenths is '360.1', 3600 tenths is '360'
StringOf(x) ==
    IF x.t = "string" THEN x.v
    ELSE IF x.t = "NaN" THEN <<"N", "a", "N">>
    ELSE IF x.t = "number"
    THEN (IF x.v < 0 THEN <<"-">> ELSE <<>>)
         \o Digits(Abs(x.v) \div 10)
         \o (IF Abs(x.v) % 10 = 0 THEN <<>> ELSE <<".", DigitChars[(Abs(x.v) % 10) + 1]>>)
    ELSE IF x.t = "null" THEN <<"n", "u", "l", "l">>
    ELSE <<"u", "n", "d", "e", "f", "i", "n", "e", "d">>

\* the length of the longest run of digits at the start of s
RECURSIVE DigitRun(_)
DigitRun(s) ==
    IF s # <<>> /\ IsDigit(Head(s)) THEN 1 + DigitRun(Tail(s)) ELSE 0

\* parseFloat(s): the longest leading -?digits(.digit)? of s, NaN when there is none
parseFloat(s) ==
    LET neg  == s # <<>> /\ Head(s) = "-"
        rest == IF neg THEN Tail(s) ELSE s
        n    == DigitRun(rest)
        int  == NumberOfDigits(SubSeq(rest, 1, n))
        frac == IF Len(rest) >= n + 2 /\ rest[n + 1] = "." /\ IsDigit(rest[n + 2])
                THEN DigitValue(rest[n + 2]) ELSE 0
        mag  == 10 * int + frac
    IN  IF n = 0 THEN NaN
        ELSE Num(IF neg THEN -mag ELSE mag)

---------------------------------------------------------------------------
(* The chart of the collaborator *)

\* const planets = ['Su', 'Mo', 'Ma', 'Me', 'Ju', 'Ve', 'Sa']
planets ==
    <<"Su", "Mo", "Ma", "Me", "Ju", "Ve", "Sa">>

\* the keys of birthChart.meta that the service reads
Codes ==
    {"Su", "Mo", "Ma", "Me", "Ju", "Ve", "Sa", "As"}

planetNames ==
    [Su |-> "Sun", Mo |-> "Moon", Ma |-> "Mars", Me |-> "Mercury",
     Ju |-> "Jupiter", Ve |-> "Venus", Sa |-> "Saturn"]

\* one entry of meta: an object with a degree and a rashi
Entry(degree, rashi) ==
    Obj([degree |-> degree, rashi |-> rashi])

\* a chart object; throws marks an object whose property reads raise
Chart(meta) ==
    Obj([throws |-> FALSE, meta |-> meta])

HostileChart ==
    Obj([throws |-> TRUE, meta |-> Undef])

\* a completed evaluation: a value returned or an error raised
Return(value) ==
    [raised |-> FALSE, value |-> value]

Raise(message) ==
    [raised |-> TRUE, value |-> message]

\* x.degree : undefined on anything that is not an object with that field
DegreeOf(entry) ==
    IF entry.t = "object" THEN entry.v.degree ELSE Undef

\* x.rashi
RashiOf(entry) ==
    IF entry.t = "object" THEN entry.v.rashi ELSE Undef

---------------------------------------------------------------------------
(* calculateAtmakarak, part_000 lines 80-144 *)

\* the loop body with >= for >: a later planet with an equal degree wins
ScanPlanetLastWins(scan, planet, meta) ==
    IF ~Falsy(meta[planet]) /\ TypeofNumber(DegreeOf(meta[planet]))
    THEN LET degree == parseFloat(StringOf(DegreeOf(meta[planet])))
         IN  IF ~IsNaN(degree) /\ degree.v >= 0 /\ degree.v <= MaxDegree
             THEN [maxDegrees   |-> IF degree.v >= scan.maxDegrees
                                    THEN degree.v ELSE scan.maxDegrees,
                   atmakarak    |-> IF degree.v >= scan.maxDegrees
                                    THEN planet ELSE scan.atmakarak,
                   validPlanets |-> Append(scan.validPlanets, planet)]
             ELSE scan
    ELSE scan

\* the loop body of the earlier version, part_001 lines 47-53: an absent
\* degree is coerced to '0' and whatever number the degree parses to is
\* compared; scan is the loop's running [maxDegrees, atmakarak]
ScanPlanetCoerced(scan, planet, meta) ==
    LET degree == parseFloat(IF LooseNull(DegreeOf(meta[planet]))
                             THEN <<"0">> ELSE StringOf(DegreeOf(meta[planet])))
    IN  IF ~IsNaN(degree) /\ degree.v > scan.maxDegrees
        THEN [maxDegrees |-> degree.v, atmakarak |-> planet]
        ELSE scan

\* the loop of part_001 lines 41-53
RECURSIVE ScanCoercedFrom(_, _, _)
ScanCoercedFrom(scan, i, meta) ==
    IF i > Len(planets) THEN scan
    ELSE ScanCoercedFrom(ScanPlanetCoerced(scan, planets[i], meta), i + 1, meta)

\* calculateAtmakarak of the earlier version, part_001 lines 40-66: no
\* structure checks and no try, so reading meta of a chart that is null or
\* undefined, or an entry of a meta that is, raises a TypeError
calculateAtmakarakCoerced(chart) ==
    IF LooseNull(chart) THEN Raise("TypeError")
    ELSE IF chart.t = "object" /\ chart.v.throws THEN Raise("TypeError")
    ELSE IF chart.t # "object" \/ LooseNull(chart.v.meta) THEN Raise("TypeError")
    ELSE IF chart.v.meta.t # "object" THEN Return("Sun")
    ELSE Return(planetNames[
             ScanCoercedFrom([maxDegrees |-> 0, atmakarak |-> "Su"], 1,
                             chart.v.meta.v).atmakarak])

\* the loop body of the earlier version put in place of the filtering one
ScanPlanetUnfiltered(scan, planet, meta) ==
    [maxDegrees   |-> ScanPlanetCoerced(scan, planet, meta).maxDegrees,
     atmakarak    |-> ScanPlanetCoerced(scan, planet, meta).atmakarak,
     validPlanets |-> Append(scan.validPlanets, planet)]

\* the body of the for loop, lines 102-119; scan is the loop's running
\* [maxDegrees, atmakarak, validPlanets]
ScanPlanet(scan, planet, meta) ==
    IF ~Falsy(meta[planet]) /\ TypeofNumber(DegreeOf(meta[planet]))
    THEN LET degree == parseFloat(StringOf(DegreeOf(meta[planet])))
         IN  IF ~IsNaN(degree) /\ degree.v >= 0 /\ degree.v <= MaxDegree
             THEN [maxDegrees   |-> IF degree.v > scan.maxDegrees
                                    THEN degree.v ELSE scan.maxDegrees,
                   atmakarak    |-> IF degree.v > scan.maxDegrees
                                    THEN planet ELSE scan.atmakarak,
                   validPlanets |-> Append(scan.validPlanets, planet)]
             ELSE scan
    ELSE scan

\* the loop over planets[i..7], lines 93-119
RECURSIVE ScanFrom(_, _, _)
ScanFrom(scan, i, meta) ==
    IF i > Len(planets) THEN scan
    ELSE ScanFrom(ScanPlanet(scan, planets[i], meta), i + 1, meta)

\* the try block, lines 82-139
AtmakarakTry(chart) ==
    IF Falsy(chart) \/ ~TypeofObject(chart) THEN Return("Sun")
    ELSE IF chart.v.throws THEN Raise("TypeError")
    ELSE IF Falsy(chart.v.meta) \/ ~TypeofObject(chart.v.meta) THEN Return("Sun")
    ELSE LET scan == ScanFrom([maxDegrees |-> 0, atmakarak |-> "Su",
                               validPlanets |-> <<>>], 1, chart.v.meta.v)
         IN  IF Len(scan.validPlanets) = 0 THEN Return("Sun")
             ELSE IF scan.atmakarak \in DOMAIN planetNames
                  THEN Return(planetNames[scan.atmakarak])
                  ELSE Return("Sun")

\* the function without its try and catch
calculateAtmakarakUncaught(chart) ==
    AtmakarakTry(chart)

\* try { ... } catch (error) { return 'Sun' }, lines 81 and 140-143
calculateAtmakarak(chart) ==
    LET attempt == AtmakarakTry(chart)
    IN  IF attempt.raised THEN Return("Sun") ELSE attempt

---------------------------------------------------------------------------
(* validateInput of the HTTP handler, part_002 lines 52-95 *)

\* lines 55-68
SrvValidateDate(errors, dateOfBirth) ==
    IF Falsy(dateOfBirth) \/ ~TypeofString(dateOfBirth)
    THEN Push(errors, SrvDateRequired)
    ELSE IF ~dateRegex(dateOfBirth.v)
    THEN Push(errors, SrvDateFormat)
    ELSE IF NewDate(dateOfBirth.v).nan
    THEN Push(errors, SrvDateInvalid)
    ELSE errors

\* lines 70-78
SrvValidateTime(errors, timeOfBirth) ==
    IF Falsy(timeOfBirth) \/ ~TypeofString(timeOfBirth)
    THEN Push(errors, SrvTimeRequired)
    ELSE IF ~timeRegex(timeOfBirth.v)
    THEN Push(errors, SrvTimeFormat)
    ELSE errors

\* lines 80-85 (a comparison with NaN is false)
SrvValidateLat(errors, lat) ==
    IF LooseNull(lat) \/ ~TypeofNumber(lat) THEN Push(errors, SrvLatRequired)
    ELSE IF ~IsNaN(lat) /\ (lat.v < LatMin \/ lat.v > LatMax)
    THEN Push(errors, SrvLatRange)
    ELSE errors

\* lines 87-92
SrvValidateLng(errors, lng) ==
    IF LooseNull(lng) \/ ~TypeofNumber(lng) THEN Push(errors, SrvLngRequired)
    ELSE IF ~IsNaN(lng) /\ (lng.v < LngMin \/ lng.v > LngMax)
    THEN Push(errors, SrvLngRange)
    ELSE errors

validateInput(dateOfBirth, timeOfBirth, lat, lng) ==
    SrvValidateLng(
        SrvValidateLat(
            SrvValidateTime(SrvValidateDate(<<>>, dateOfBirth), timeOfBirth),
            lat),
        lng)

---------------------------------------------------------------------------
(* Errors and responses *)

\* new Error(message); a thrown value that is no Error has isError FALSE
Error(message) ==
    [isError |-> TRUE, message |-> message]

NonError ==
    [isError |-> FALSE, message |-> <<>>]

NoResponse ==
    [status |-> 0, error |-> "", message |-> <<>>, details |-> <<>>]

\* res.status(s).json({error, message, details})
Json(status, error, message, details) ==
    [status |-> status, error |-> error, message |-> message, details |-> details]

\* the check of line 161 left out
HasViolationsIgnored(errors) ==
    FALSE

\* validationErrors.length > 0, part_000 line 161
HasViolations(errors) ==
    Len(errors) > 0

\* !vedicAstrology || !vedicAstrology.positioner || !...getBirthChart, line 166
PackageUnusable(p) ==
    p # "loaded"

\* the checks of the returned chart, lines 181-188
ChartShapeBad(chart) ==
    \/ Falsy(chart)
    \/ chart.t # "object"
    \/ Falsy(chart.v.meta)
    \/ ~TypeofObject(chart.v.meta)

\* the error those checks raise
ChartShapeError(chart) ==
    IF Falsy(chart) THEN Error(MsgNullChart) ELSE Error(MsgMissingMeta)

\* birthChart.meta.X?.rashi || 'Unknown', lines 193-195
SignOf(meta, code) ==
    IF LooseNull(meta[code]) \/ Falsy(RashiOf(meta[code]))
    THEN SignUnknown
    ELSE RashiOf(meta[code]).v

\* the object returned, lines 192-214
Summary(chart) ==
    [moonSign   |-> SignOf(chart.v.meta.v, "Mo"),
     sunSign    |-> SignOf(chart.v.meta.v, "Su"),
     ascendant  |-> SignOf(chart.v.meta.v, "As"),
     atmakarak  |-> calculateAtmakarak(chart).value,
     birthChart |-> chart]

\* the catch block of getVedicAstrologyData, part_000 lines 216-239:
\* the error it throws in place of the one it caught
ServiceCatch(error) ==
    IF ~error.isError THEN Error(MsgUnknownError)
    ELSE IF Includes(error.message, PatValidationFailed)
    THEN Error(MsgInvalidInputPrefix \o error.message)
    ELSE IF Includes(error.message, PatVedicAstrology) \/ Includes(error.message, PatPackage)
    THEN Error(MsgServiceUnavailable)
    ELSE IF Includes(error.message, PatBirthChart) \/ Includes(error.message, PatMeta)
    THEN Error(MsgMalformedChart)
    ELSE Error(MsgCalculationFailedPrefix \o error.message)

\* the catch block of the POST handler, part_002 lines 140-195
HandlerCatch(error) ==
    IF ~error.isError
    THEN Json(500, "Unknown server error", Msg500Unknown, <<>>)
    ELSE IF Includes(error.message, PatInvalidDate) \/ Includes(error.message, PatInvalidTime)
    THEN Json(400, "Invalid date or time format", error.message, <<>>)
    ELSE IF \/ Includes(error.message, PatCoordinates)
            \/ Includes(error.message, PatLatitude)
            \/ Includes(error.message, PatLongitude)
    THEN Json(400, "Invalid coordinates", error.message, <<>>)
    ELSE IF Includes(error.message, PatValidationFailed)
    THEN Json(400, "Invalid input parameters", error.message, <<>>)
    ELSE IF Includes(error.message, PatVedicAstrology) \/ Includes(error.message, PatPackage)
    THEN Json(503, "Astrology service unavailable", Msg503, <<>>)
    ELSE Json(500, "Internal server error", Msg500, <<>>)

---------------------------------------------------------------------------
(* Inputs *)

\* host time zones: New York (UTC-5) and Kolkata (UTC+5:30)
HostZones ==
    {-300, 330}

\* year, month, day of the date strings a client sends
DateTuples ==
    {<<1990, 6, 15>>, <<MinYear, 1, 1>>, <<MaxYear, 12, 31>>, <<MinYear - 1, 12, 31>>,
     <<MaxYear + 1, 1, 1>>, <<2023, 2, 30>>, <<2023, 13, 1>>}

DateStrings ==
    {Str(FormatDate(t[1], t[2], t[3], "-")) : t \in DateTuples}
        \cup {Str(FormatDate(1990, 6, 15, "/")), Str(<<>>), Undef}

\* hours, minutes, seconds of the time strings a client sends
TimeTuples ==
    {<<14, 30, 0>>, <<0, 0, 0>>, <<MaxHours, MaxMinutes, MaxSeconds>>,
     <<MaxHours + 1, 0, 0>>, <<12, MaxMinutes + 1, 0>>, <<12, 0, MaxSeconds + 1>>,
     <<25, 61, 61>>}

TimeStrings ==
    {Str(FormatTime(t[1], t[2], t[3])) : t \in TimeTuples} \cup {Str(TextTime), Undef}

\* the numbers at, inside and up to Margin tenths outside the range lo..hi
Around(lo, hi, inside) ==
    {Num(lo), Num(hi), Num(inside)}
        \cup {Num(lo - k) : k \in 1..Margin} \cup {Num(hi + k) : k \in 1..Margin}

LatValues ==
    Around(LatMin, LatMax, 286) \cup {NaN}

LngValues ==
    Around(LngMin, LngMax, 772) \cup {NaN}

\* undefined is the omitted argument, null a present but invalid one
TimezoneValues ==
    Around(TzMin, TzMax, 0) \cup {Undef, Null}

ValidatorArgs ==
    [dateString : DateStrings, timeString : TimeStrings, lat : LatValues,
     lng : LngValues, timezone : TimezoneValues]

NoArgs ==
    [dateString |-> Undef, timeString |-> Undef, lat |-> Undef, lng |-> Undef,
     timezone |-> Undef]

NoBody ==
    [dateOfBirth |-> Undef, timeOfBirth |-> Undef, lat |-> Undef, lng |-> Undef]

\* the validator has not run
NotValidated ==
    [ran |-> FALSE, list |-> <<>>]

NotDerived ==
    [raised |-> FALSE, value |-> ""]

\* charts for the Atmakarak scan --------------------------------------------

Planets ==
    {planets[i] : i \in 1..Len(planets)}

NoEntry ==
    Undef

\* entries the scan accepts or finds absent
OrdinaryEntries ==
    {NoEntry, Entry(Num(0), Undef), Entry(Num(MaxDegree), Undef)}

\* entries with a valid degree: 0, 120 and 360
GradedEntries ==
    {Entry(Num(0), Undef), Entry(Num(1200), Undef), Entry(Num(MaxDegree), Undef)}

\* entries whose degree is not a number in 0..360
OddEntries ==
    {Entry(Str(TextDegree), Undef), Entry(NaN, Undef), Entry(Num(-1), Undef),
     Entry(Num(MaxDegree + 1), Undef)}

\* meta with the given entry of each planet and no ascendant
MetaOf(f) ==
    [c \in Codes |-> IF c \in Planets THEN f[c] ELSE NoEntry]

\* the entries g of the planets in its domain, h for the others
Merge(g, h) ==
    [p \in Planets |-> IF p \in DOMAIN g THEN g[p] ELSE h[p]]

\* the sets of planets that may carry odd entries in one chart
OddSubsets ==
    {T \in SUBSET Planets : Cardinality(T) <= MaxOdd}

\* values that are no chart object with a meta object
ShapelessCharts ==
    {Null, Undef, Num(7), HostileChart, Chart(Undef), Chart(Null), Chart(Str(TextMeta))}

---------------------------------------------------------------------------
(* The validator applied to drawn arguments *)

InitValidate ==
    /\ pc = "ready"
    /\ hostOffset \in HostZones
    /\ args \in ValidatorArgs
    /\ validationErrors = NotValidated
    /\ birthChart = Undef
    /\ derived = NotDerived
    /\ body = NoBody
    /\ pkg = "loaded"
    /\ thrown = NonError
    /\ response = NoResponse
    /\ calls = 0
    /\ handled = 0
    /\ fault = "none"

\* getVedicAstrologyData lines 154 and 160: default the timezone, validate
Validate ==
    /\ pc = "ready"
    /\ validationErrors' =
           [ran  |-> TRUE,
            list |-> validateAstrologyInput(args.dateString, args.timeString, args.lat,
                         args.lng, TimezoneParameter(args.timezone), hostOffset)]
    /\ pc' = "returned"
    /\ UNCHANGED <<hostOffset, args, birthChart, derived, body, pkg, thrown, response,
                   calls, handled, fault>>

NextValidate ==
    Validate

SpecValidate ==
    InitValidate /\ [][NextValidate]_vars

---------------------------------------------------------------------------
(* calculateAtmakarak applied to drawn charts *)

InitAtmakarak ==
    /\ pc = "ready"
    /\ hostOffset = 0
    /\ args = NoArgs
    /\ validationErrors = NotValidated
    /\ \/ birthChart \in ShapelessCharts
       \* every planet with a valid degree
       \/ \E f \in [Planets -> GradedEntries] : birthChart = Chart(Obj(MetaOf(f)))
       \* every planet ordinary except the odd ones
       \/ \E S \in OddSubsets :
              \E g \in [S -> OddEntries], h \in [Planets \ S -> OrdinaryEntries] :
                  birthChart = Chart(Obj(MetaOf(Merge(g, h))))
    /\ derived = NotDerived
    /\ body = NoBody
    /\ pkg = "loaded"
    /\ thrown = NonError
    /\ response = NoResponse
    /\ calls = 0
    /\ handled = 0
    /\ fault = "none"

Derive ==
    /\ pc = "ready"
    /\ derived' = calculateAtmakarak(birthChart)
    /\ pc' = "returned"
    /\ UNCHANGED <<hostOffset, args, validationErrors, birthChart, body, pkg, thrown,
                   response, calls, handled, fault>>

NextAtmakarak ==
    Derive

SpecAtmakarak ==
    InitAtmakarak /\ [][NextAtmakarak]_vars

---------------------------------------------------------------------------
(* POST /astrology-data, part_002 lines 98-196, calling getVedicAstrologyData, *)
(* part_000 lines 149-240                                                     *)

\* request bodies
BodyDates ==
    {Str(FormatDate(1990, 6, 15, "-")), Str(FormatDate(MinYear, 1, 1, "-")),
     Str(FormatDate(1800, 1, 1, "-")), Str(FormatDate(2023, 13, 1, "-")),
     Str(FormatDate(1990, 6, 15, "/")), Undef}

BodyTimes ==
    {Str(FormatTime(14, 30, 0)), Str(FormatTime(25, 0, 0)), Str(TextTime)}

BodyLats ==
    {Num(286), Num(LatMax + 1), Str(TextDegree)}

BodyLngs ==
    {Num(772), Num(LngMin - 1)}

Bodies ==
    [dateOfBirth : BodyDates, timeOfBirth : BodyTimes, lat : BodyLats, lng : BodyLngs]

\* charts the collaborator may return
FullMeta ==
    [c \in Codes |->
        IF c = "Mo" THEN Entry(Num(1200), Str(SignCancer))
        ELSE IF c = "As" THEN Entry(Num(100), Str(SignLeo))
        ELSE Entry(Num(MaxDegree), Str(SignLeo))]

PartialMeta ==
    [c \in Codes |->
        IF c = "Mo" THEN Entry(Num(1200), Str(SignCancer))
        ELSE IF c = "Ve" THEN Entry(Num(MaxDegree + 1), Undef)
        ELSE NoEntry]

ReturnedCharts ==
    {Null, Undef, Chart(Undef), Chart(Str(TextMeta)), Chart(Obj(FullMeta)),
     Chart(Obj(PartialMeta))}

\* what the collaborator may throw
RaisedErrors ==
    {Error(CollabMsgGeneric), Error(CollabMsgPackage), Error(CollabMsgLatitude), NonError}

Init ==
    /\ pc = "idle"
    /\ hostOffset \in HostZones
    /\ pkg \in {"loaded", "missing"}
    /\ args = NoArgs
    /\ validationErrors = NotValidated
    /\ birthChart = Undef
    /\ derived = NotDerived
    /\ body = NoBody
    /\ thrown = NonError
    /\ response = NoResponse
    /\ calls = 0
    /\ handled = 0
    /\ fault = "none"

\* a request arrives
Request(b) ==
    /\ pc = "idle"
    /\ handled < MaxRequests
    /\ body' = b
    /\ pc' = "validateInput"
    /\ UNCHANGED <<hostOffset, args, validationErrors, birthChart, derived, pkg, thrown,
                   response, calls, handled, fault>>

\* part_002 lines 111-126: validate the body, reject with 400 or call the service
\* (timezone is not passed: the argument is undefined)
HandlerValidate ==
    /\ pc = "validateInput"
    /\ LET errs == validateInput(body.dateOfBirth, body.timeOfBirth, body.lat, body.lng)
       IN  IF Len(errs) > 0
           THEN /\ response' = Json(400, "Invalid input", <<>>, errs)
                /\ fault' = "validation"
                /\ pc' = "responded"
                /\ args' = args
           ELSE /\ args' = [dateString |-> body.dateOfBirth,
                            timeString |-> body.timeOfBirth,
                            lat |-> body.lat, lng |-> body.lng, timezone |-> Undef]
                /\ pc' = "service"
                /\ UNCHANGED <<response, fault>>
    /\ UNCHANGED <<hostOffset, validationErrors, birthChart, derived, body, pkg, thrown,
                   calls, handled>>

\* part_000 lines 159-163
ServiceValidate ==
    /\ pc = "service"
    /\ LET errs == validateAstrologyInput(args.dateString, args.timeString, args.lat,
                       args.lng, TimezoneParameter(args.timezone), hostOffset)
       IN  /\ validationErrors' = [ran |-> TRUE, list |-> errs]
           /\ IF HasViolations(errs)
              THEN /\ thrown' = Error(MsgValidationPrefix \o Join(errs, JoinSeparator))
                   /\ fault' = "validation"
                   /\ pc' = "serviceCatch"
              ELSE /\ pc' = "invoke"
                   /\ UNCHANGED <<thrown, fault>>
    /\ UNCHANGED <<hostOffset, args, birthChart, derived, body, pkg, response, calls,
                   handled>>

\* lines 165-168: the package lacks positioner.getBirthChart
PackageCheckFails ==
    /\ pc = "invoke"
    /\ PackageUnusable(pkg)
    /\ thrown' = Error(MsgPackageNotLoaded)
    /\ fault' = "collaborator"
    /\ pc' = "serviceCatch"
    /\ UNCHANGED <<hostOffset, args, validationErrors, birthChart, derived, body, pkg,
                   response, calls, handled>>

\* lines 173-179: getBirthChart returns chart
GetBirthChartReturns(chart) ==
    /\ pc = "invoke"
    /\ ~PackageUnusable(pkg)
    /\ calls' = calls + 1
    /\ birthChart' = chart
    /\ pc' = "derive"
    /\ UNCHANGED <<hostOffset, args, validationErrors, derived, body, pkg, thrown,
                   response, handled, fault>>

\* lines 173-179: getBirthChart throws e
GetBirthChartRaises(e) ==
    /\ pc = "invoke"
    /\ ~PackageUnusable(pkg)
    /\ calls' = calls + 1
    /\ thrown' = e
    /\ fault' = "collaborator"
    /\ pc' = "serviceCatch"
    /\ UNCHANGED <<hostOffset, args, validationErrors, birthChart, derived, body, pkg,
                   response, handled>>

\* lines 181-214: check the chart's shape, extract the signs, derive the Atmakarak
DeriveSummary ==
    /\ pc = "derive"
    /\ IF ChartShapeBad(birthChart)
       THEN /\ thrown' = ChartShapeError(birthChart)
            /\ fault' = "malformed"
            /\ pc' = "serviceCatch"
            /\ derived' = derived
       ELSE /\ derived' = Return(Summary(birthChart))
            /\ pc' = "respondOk"
            /\ UNCHANGED <<thrown, fault>>
    /\ UNCHANGED <<hostOffset, args, validationErrors, birthChart, body, pkg, response,
                   calls, handled>>

\* lines 216-239: the service's catch block rethrows
ServiceRethrow ==
    /\ pc = "serviceCatch"
    /\ thrown' = ServiceCatch(thrown)
    /\ pc' = "handlerCatch"
    /\ UNCHANGED <<hostOffset, args, validationErrors, birthChart, derived, body, pkg,
                   response, calls, handled, fault>>

\* part_002 lines 140-195: the handler's catch block answers
HandlerRespondError ==
    /\ pc = "handlerCatch"
    /\ response' = HandlerCatch(thrown)
    /\ pc' = "responded"
    /\ UNCHANGED <<hostOffset, args, validationErrors, birthChart, derived, body, pkg,
                   thrown, calls, handled, fault>>

\* part_002 line 138: res.json(result)
HandlerRespondOk ==
    /\ pc = "respondOk"
    /\ response' = Json(200, "", <<>>, <<>>)
    /\ pc' = "responded"
    /\ UNCHANGED <<hostOffset, args, validationErrors, birthChart, derived, body, pkg,
                   thrown, calls, handled, fault>>

\* the request is over; nothing of it is kept
Finish ==
    /\ pc = "responded"
    /\ pc' = "idle"
    /\ handled' = handled + 1
    /\ args' = NoArgs
    /\ validationErrors' = NotValidated
    /\ birthChart' = Undef
    /\ derived' = NotDerived
    /\ body' = NoBody
    /\ thrown' = NonError
    /\ response' = NoResponse
    /\ calls' = 0
    /\ fault' = "none"
    /\ UNCHANGED <<hostOffset, pkg>>

Next ==
    \/ \E b \in Bodies : Request(b)
    \/ HandlerValidate
    \/ ServiceValidate
    \/ PackageCheckFails
    \/ \E chart \in ReturnedCharts : GetBirthChartReturns(chart)
    \/ \E e \in RaisedErrors : GetBirthChartRaises(e)
    \/ DeriveSummary
    \/ ServiceRethrow
    \/ HandlerRespondError
    \/ HandlerRespondOk
    \/ Finish

Spec ==
    Init /\ [][Next]_vars

---------------------------------------------------------------------------
(* What the claims speak of, stated from the specification *)

\* the arguments the handler passes for the current request
ServiceErrorsOf(b) ==
    validateAstrologyInput(b.dateOfBirth, b.timeOfBirth, b.lat, b.lng,
                           Num(DefaultTimezone), hostOffset)

\* year, month, day name a day of the calendar
RealDate(t) ==
    t[2] \in 1..12 /\ t[3] \in 1..DaysInMonth(t[1], t[2])

\* a YYYY-MM-DD string of a real calendar date with its year in 1900..2100
DateOk(x) ==
    \E t \in DateTuples :
        /\ x = Str(FormatDate(t[1], t[2], t[3], "-"))
        /\ RealDate(t)
        /\ t[1] >= 1900 /\ t[1] <= 2100

\* an HH:MM:SS string with hours in 0..23, minutes and seconds in 0..59
TimeOk(x) ==
    \E t \in TimeTuples :
        /\ x = Str(FormatTime(t[1], t[2], t[3]))
        /\ t[1] <= 23 /\ t[2] <= 59 /\ t[3] <= 59

LatOk(x) ==
    x.t = "number" /\ x.v >= -900 /\ x.v <= 900

LngOk(x) ==
    x.t = "number" /\ x.v >= -1800 /\ x.v <= 1800

\* in -12..14, or omitted
TimezoneOk(x) ==
    x.t = "undefined" \/ (x.t = "number" /\ x.v >= -120 /\ x.v <= 140)

---------------------------------------------------------------------------
(* C1 *)

\* C1: the chart generator is invoked only after validateAstrologyInput
\* returned an empty list for the request; a request for which the validator
\* finds violations is rejected with status 400 and makes no call at all.
C1_CallOnlyAfterCleanValidation ==
    /\ calls > 0 => validationErrors.ran /\ validationErrors.list = <<>>
    /\ (validationErrors.ran /\ validationErrors.list # <<>>) => calls = 0
    /\ (pc # "idle" /\ ServiceErrorsOf(body) # <<>>) =>
           /\ calls = 0
           /\ pc = "responded" => response.status = 400

\* a request that passed the handler's own checks, was refused by the
\* validator (hours 25) and answered 400 without a call
C1_Witness ==
    /\ pc = "responded"
    /\ validationErrors.ran
    /\ ErrHours \in {validationErrors.list[i] : i \in 1..Len(validationErrors.list)}
    /\ response.status = 400
    /\ calls = 0

---------------------------------------------------------------------------
(* C2 *)

\* the status the specification assigns to a fault category
StatusOfFault(f) ==
    IF f = "validation" THEN 400
    ELSE IF f = "collaborator" THEN 503
    ELSE 500

\* C2: a failed request is answered 400 for a validation fault, 503 when the
\* chart generator is missing or raises, and 500 for every other fault.
C2_StatusByFaultCategory ==
    (pc = "responded" /\ fault # "none") => response.status = StatusOfFault(fault)

---------------------------------------------------------------------------
(* C3 *)

\* C3: well-formed arguments within range, boundaries included, timezone in
\* range or omitted, give an empty list of violations.
C3_WellFormedAccepted ==
    ( /\ pc = "returned"
      /\ DateOk(args.dateString)
      /\ TimeOk(args.timeString)
      /\ LatOk(args.lat)
      /\ LngOk(args.lng)
      /\ TimezoneOk(args.timezone) ) => validationErrors.list = <<>>

---------------------------------------------------------------------------
(* C4, C5, C8: the Atmakarak *)

\* the chart is an object whose meta is an object
HasMeta(chart) ==
    /\ chart.t = "object"
    /\ ~chart.v.throws
    /\ chart.v.meta.t = "object"

\* the entry carries a number in 0..360 as its degree
ValidDegree(entry) ==
    /\ entry.t = "object"
    /\ entry.v.degree.t = "number"
    /\ entry.v.degree.v >= 0
    /\ entry.v.degree.v <= 3600

AllSevenValid(chart) ==
    HasMeta(chart) /\ \A p \in Planets : ValidDegree(chart.v.meta.v[p])

NoValidCandidate(chart) ==
    ~HasMeta(chart) \/ \A p \in Planets : ~ValidDegree(chart.v.meta.v[p])

\* the first planet, in the fixed order, that holds the largest degree
FirstLargest(meta) ==
    planets[CHOOSE i \in 1..Len(planets) :
        /\ \A j \in 1..Len(planets) :
               meta[planets[j]].v.degree.v <= meta[planets[i]].v.degree.v
        /\ \A j \in 1..(i - 1) :
               meta[planets[j]].v.degree.v < meta[planets[i]].v.degree.v]

FullNames ==
    {"Sun", "Moon", "Mars", "Mercury", "Jupiter", "Venus", "Saturn"}

FullNameOf(code) ==
    CASE code = "Su" -> "Sun"
      [] code = "Mo" -> "Moon"
      [] code = "Ma" -> "Mars"
      [] code = "Me" -> "Mercury"
      [] code = "Ju" -> "Jupiter"
      [] code = "Ve" -> "Venus"
      [] code = "Sa" -> "Saturn"

\* C4: when all seven planets carry a valid degree the result is the full
\* name of the planet with the largest degree, the first in the fixed order
\* among those that share it (in both versions of calculateAtmakarak).
C4_LargestDegreeFirstInOrder ==
    (pc = "returned" /\ AllSevenValid(birthChart)) =>
        /\ derived = Return(FullNameOf(FirstLargest(birthChart.v.meta.v)))
        /\ calculateAtmakarakCoerced(birthChart) = derived

\* Moon and Venus share the largest degree, every other planet is lower:
\* Moon, the earlier one, is returned
C4_Witness ==
    /\ pc = "returned"
    /\ AllSevenValid(birthChart)
    /\ \A p \in Planets :
           birthChart.v.meta.v[p].v.degree.v =
               (IF p \in {"Mo", "Ve"} THEN 3600 ELSE 1200)
    /\ derived = Return("Moon")

\* C5: for every chart value calculateAtmakarak returns, without raising,
\* one of the seven full names, and Sun when no candidate has a valid degree.
C5_NeverRaisesAlwaysAPlanet ==
    pc = "returned" =>
        /\ ~derived.raised
        /\ derived.value \in FullNames
        /\ NoValidCandidate(birthChart) => derived.value = "Sun"

\* a chart whose property reads raise was answered with Sun
C5_Witness ==
    /\ pc = "returned"
    /\ birthChart = HostileChart
    /\ derived = Return("Sun")

\* the chart without the entry of planet p
WithoutPlanet(chart, p) ==
    Chart(Obj([chart.v.meta.v EXCEPT ![p] = NoEntry]))

\* the planets of the fixed order whose degree is valid
RECURSIVE ValidFrom(_, _)
ValidFrom(i, meta) ==
    IF i > Len(planets) THEN <<>>
    ELSE (IF ValidDegree(meta[planets[i]]) THEN <<planets[i]>> ELSE <<>>)
         \o ValidFrom(i + 1, meta)

\* C8: a candidate whose degree is absent, not a number or outside 0..360 is
\* skipped entirely: the planets counted as valid are exactly those with a
\* number in 0..360 (0 and 360 included), and the result is the one the chart
\* gives with that candidate's entry removed.
C8_InvalidDegreeSkipped ==
    (pc = "returned" /\ HasMeta(birthChart)) =>
        /\ ScanFrom([maxDegrees |-> 0, atmakarak |-> "Su", validPlanets |-> <<>>],
                    1, birthChart.v.meta.v).validPlanets
               = ValidFrom(1, birthChart.v.meta.v)
        /\ \A p \in Planets :
               ~ValidDegree(birthChart.v.meta.v[p]) =>
                   derived = calculateAtmakarak(WithoutPlanet(birthChart, p))

\* one planet at 360.1, just above the range, and Venus at exactly 360: Venus wins
C8_Witness ==
    /\ pc = "returned"
    /\ HasMeta(birthChart)
    /\ \E p \in Planets :
           /\ DegreeOf(birthChart.v.meta.v[p]).t = "number"
           /\ DegreeOf(birthChart.v.meta.v[p]).v = 3601
    /\ ValidDegree(birthChart.v.meta.v["Ve"])
    /\ birthChart.v.meta.v["Ve"].v.degree.v = 3600
    /\ derived = Return("Venus")

\* C11: when at least one of the seven candidates holds a valid degree, the
\* planet returned is a candidate whose degree is valid; a planet with absent
\* or invalid data (the initial default Sun in particular) is never returned
\* while another candidate holds valid data, degrees of exactly 0 included.
C11_ReturnedPlanetHasValidDegree ==
    (pc = "returned" /\ HasMeta(birthChart)
         /\ \E p \in Planets : ValidDegree(birthChart.v.meta.v[p])) =>
        \E q \in Planets :
            /\ ValidDegree(birthChart.v.meta.v[q])
            /\ derived = Return(FullNameOf(q))

---------------------------------------------------------------------------
(* C6, C7: the validator field by field *)

DateMessages ==
    {ErrDateRequired, ErrDateFormat, ErrDateInvalid, ErrDateRange}

TimeMessages ==
    {ErrTimeRequired, ErrTimeFormat, ErrHours, ErrMinutes, ErrSeconds}

LatMessages ==
    {ErrLatNumber, ErrLatRange}

LngMessages ==
    {ErrLngNumber, ErrLngRange}

TimezoneMessages ==
    {ErrTzNumber, ErrTzRange}

\* the fields of a that are out of range or malformed
BrokenFields(a) ==
    {f \in {"date", "time", "lat", "lng", "timezone"} :
        \/ f = "date" /\ ~DateOk(a.dateString)
        \/ f = "time" /\ ~TimeOk(a.timeString)
        \/ f = "lat" /\ ~LatOk(a.lat)
        \/ f = "lng" /\ ~LngOk(a.lng)
        \/ f = "timezone" /\ ~TimezoneOk(a.timezone)}

MessagesOf(f) ==
    CASE f = "date" -> DateMessages
      [] f = "time" -> TimeMessages
      [] f = "lat" -> LatMessages
      [] f = "lng" -> LngMessages
      [] f = "timezone" -> TimezoneMessages

Range(s) ==
    {s[i] : i \in 1..Len(s)}

\* C6: when exactly one of the five fields is out of range or malformed and
\* the others are valid, the result is exactly one violation, which names
\* that field.
C6_ExactlyOneViolation ==
    (pc = "returned" /\ Cardinality(BrokenFields(args)) = 1) =>
        /\ Len(validationErrors.list) = 1
        /\ \A f \in BrokenFields(args) : validationErrors.list[1] \in MessagesOf(f)

\* arguments that are valid, for use beside the one field under study
GoodArgs ==
    [dateString |-> Str(FormatDate(1990, 6, 15, "-")),
     timeString |-> Str(FormatTime(14, 30, 0)),
     lat |-> Num(286), lng |-> Num(772), timezone |-> Undef]

ValidateArgs(a) ==
    validateAstrologyInput(a.dateString, a.timeString, a.lat, a.lng,
                           TimezoneParameter(a.timezone), hostOffset)

\* the violations of field f of a, every other field being valid
Alone(a, f) ==
    ValidateArgs([GoodArgs EXCEPT ![f] = a[f]])

\* the result is the violations of the date, of the time, of the latitude, of
\* the longitude and of the timezone, in that order, each as it is when the
\* other fields are valid, and each naming its own field
FieldsIndependentInOrder ==
    pc = "returned" =>
        /\ validationErrors.list =
               Alone(args, "dateString") \o Alone(args, "timeString")
                   \o Alone(args, "lat") \o Alone(args, "lng")
                   \o Alone(args, "timezone")
        /\ Range(Alone(args, "dateString")) \subseteq DateMessages
        /\ Range(Alone(args, "timeString")) \subseteq TimeMessages
        /\ Range(Alone(args, "lat")) \subseteq LatMessages
        /\ Range(Alone(args, "lng")) \subseteq LngMessages
        /\ Range(Alone(args, "timezone")) \subseteq TimezoneMessages

\* the rules of the time that x breaks on its own: the format (or presence),
\* or else each of hours, minutes and seconds that is out of range
BrokenTimeRules(x) ==
    IF \E t \in TimeTuples : x = Str(FormatTime(t[1], t[2], t[3]))
    THEN LET t == CHOOSE u \in TimeTuples : x = Str(FormatTime(u[1], u[2], u[3]))
         IN  (IF t[1] > 23 THEN 1 ELSE 0) + (IF t[2] > 59 THEN 1 ELSE 0)
                 + (IF t[3] > 59 THEN 1 ELSE 0)
    ELSE 1

\* the rules a breaks independently: for the date the first of presence,
\* format, calendar day and year range that fails; for a coordinate or the
\* timezone the type or the range
BrokenRules(a) ==
    (IF DateOk(a.dateString) THEN 0 ELSE 1)
        + BrokenTimeRules(a.timeString)
        + (IF LatOk(a.lat) THEN 0 ELSE 1)
        + (IF LngOk(a.lng) THEN 0 ELSE 1)
        + (IF TimezoneOk(a.timezone) THEN 0 ELSE 1)

\* C7: the validator does not short-circuit across fields: for every
\* combination of field values it returns one violation per independently
\* broken rule, the violations of a field are the same whatever the other
\* fields hold, and the result is the per-field violations in the order date,
\* time, latitude, longitude, timezone; a bad date with a bad latitude gives
\* exactly two violations.
C7_OneViolationPerBrokenRule ==
    /\ FieldsIndependentInOrder
    /\ pc = "returned" => Len(validationErrors.list) = BrokenRules(args)

---------------------------------------------------------------------------
(* C9, C10: the faults of the request pipeline *)

\* the handler's wording of a rule of the validator, where it checks the rule
HandlerWording(m) ==
    CASE m = ErrDateRequired -> {SrvDateRequired}
      [] m = ErrDateFormat -> {SrvDateFormat}
      [] m = ErrDateInvalid -> {SrvDateInvalid}
      [] m = ErrTimeRequired -> {SrvTimeRequired}
      [] m = ErrTimeFormat -> {SrvTimeFormat}
      [] m = ErrLatNumber -> {SrvLatRequired}
      [] m = ErrLatRange -> {SrvLatRange}
      [] m = ErrLngNumber -> {SrvLngRequired}
      [] m = ErrLngRange -> {SrvLngRange}
      [] OTHER -> {}

\* the response reports the violation m
Reported(m) ==
    \/ Includes(response.message, m)
    \/ Range(response.details) \cap HandlerWording(m) # {}

\* C9: a request rejected for a validation fault is told every rule of the
\* validator that it breaks, in that one response.
C9_RejectionListsEveryViolation ==
    (pc = "responded" /\ fault = "validation") =>
        \A m \in Range(ServiceErrorsOf(body)) : Reported(m)

\* C10: after validation passed, a chart that is null or undefined, or whose
\* meta is missing or no object, makes getVedicAstrologyData fail with
\* 'Failed to generate valid birth chart data', and no summary is returned.
C10_MalformedChartFault ==
    (pc = "handlerCatch" /\ fault = "malformed") =>
        /\ thrown = Error(MsgMalformedChart)
        /\ derived = NotDerived

=============================================================================
